---- MODULE Spec2Model ----
(***************************************************************************)
(* A model of reminder/util.py: DateArgument.match (the temporal           *)
(* expression parser) and format_time (the relative time formatter).       *)
(*                                                                         *)
(* Texts are sequences of Unicode code points; positions are counted as     *)
(* Python counts them (pos = number of characters before the position).    *)
(* Moments are whole seconds; a wall-clock datetime is a record            *)
(* [year, month, day, hour, minute, second].                               *)
(***************************************************************************)
EXTENDS Integers, Sequences, FiniteSets, TLC

(***************************************************************************)
(* Characters: a character is its Unicode code point                       *)
(***************************************************************************)
\* The code points of the ASCII characters the patterns and the texts are
\* written with.
Ord ==
    (" " :> 32) @@ ("+" :> 43) @@ ("," :> 44) @@ ("-" :> 45) @@ ("." :> 46) @@ ("/" :> 47) @@
    ("0" :> 48) @@ ("1" :> 49) @@ ("2" :> 50) @@ ("3" :> 51) @@ ("4" :> 52) @@ ("5" :> 53) @@
    ("6" :> 54) @@ ("7" :> 55) @@ ("8" :> 56) @@ ("9" :> 57) @@ (":" :> 58) @@ ("A" :> 65) @@
    ("B" :> 66) @@ ("C" :> 67) @@ ("D" :> 68) @@ ("E" :> 69) @@ ("F" :> 70) @@ ("G" :> 71) @@
    ("H" :> 72) @@ ("I" :> 73) @@ ("J" :> 74) @@ ("K" :> 75) @@ ("L" :> 76) @@ ("M" :> 77) @@
    ("N" :> 78) @@ ("O" :> 79) @@ ("P" :> 80) @@ ("Q" :> 81) @@ ("R" :> 82) @@ ("S" :> 83) @@
    ("T" :> 84) @@ ("U" :> 85) @@ ("V" :> 86) @@ ("W" :> 87) @@ ("X" :> 88) @@ ("Y" :> 89) @@
    ("Z" :> 90) @@ ("a" :> 97) @@ ("b" :> 98) @@ ("c" :> 99) @@ ("d" :> 100) @@ ("e" :> 101) @@
    ("f" :> 102) @@ ("g" :> 103) @@ ("h" :> 104) @@ ("i" :> 105) @@ ("j" :> 106) @@
    ("k" :> 107) @@ ("l" :> 108) @@ ("m" :> 109) @@ ("n" :> 110) @@ ("o" :> 111) @@
    ("p" :> 112) @@ ("q" :> 113) @@ ("r" :> 114) @@ ("s" :> 115) @@ ("t" :> 116) @@
    ("u" :> 117) @@ ("v" :> 118) @@ ("w" :> 119) @@ ("x" :> 120) @@ ("y" :> 121) @@
    ("z" :> 122) @@ ("\t" :> 9) @@ ("\n" :> 10) @@ ("\r" :> 13)

\* The code points of a word written in ASCII.
W(word) == [i \in 1..Len(word) |-> Ord[word[i]]]

\* \d of a str pattern: the characters of category Nd. They come in blocks of
\* ten, zero first; these are the zeros.
DigitZeros ==
    { 48, 1632, 1776, 1984, 2406, 2534, 2662, 2790, 2918, 3046, 3174, 3302, 3430,
      3558, 3664, 3792, 3872, 4160, 4240, 6112, 6160, 6470, 6608, 6784, 6800, 6992,
      7088, 7232, 7248, 42528, 43216, 43264, 43472, 43504, 43600, 44016, 65296,
      66720, 68912, 69734, 69872, 69942, 70096, 70384, 70736, 70864, 71248, 71360,
      71472, 71904, 72016, 72784, 73040, 73120, 92768, 92864, 93008, 120782, 120792,
      120802, 120812, 120822, 123200, 123632, 125264, 130032 }

IsDigit(c) == \E z \in DigitZeros : z <= c /\ c <= z + 9

\* The value int() and float() give the digit c.
DigitVal(c) == c - (CHOOSE z \in DigitZeros : z <= c /\ c <= z + 9)

\* \s of a str pattern.
Whitespace ==
    { 9, 10, 11, 12, 13, 28, 29, 30, 31, 32, 133, 160, 5760, 8192, 8193, 8194, 8195,
      8196, 8197, 8198, 8199, 8200, 8201, 8202, 8232, 8233, 8239, 8287, 12288 }

IsSpace(c) == c \in Whitespace

\* The simple lower-case mapping (what re.IGNORECASE folds with): each
\* <<first, last, step, shift>> maps first, first + step, .., last to itself
\* plus shift; no character is in two of them.
LowerRuns ==
    { <<65, 90, 1, 32>>, <<192, 214, 1, 32>>, <<216, 222, 1, 32>>,
      <<256, 302, 2, 1>>, <<304, 304, 1, -199>>, <<306, 310, 2, 1>>,
      <<313, 327, 2, 1>>, <<330, 374, 2, 1>>, <<376, 376, 1, -121>>,
      <<377, 381, 2, 1>>, <<385, 385, 1, 210>>, <<386, 388, 2, 1>>,
      <<390, 390, 1, 206>>, <<391, 391, 1, 1>>, <<393, 394, 1, 205>>,
      <<395, 395, 1, 1>>, <<398, 398, 1, 79>>, <<399, 399, 1, 202>>,
      <<400, 400, 1, 203>>, <<401, 401, 1, 1>>, <<403, 403, 1, 205>>,
      <<404, 404, 1, 207>>, <<406, 406, 1, 211>>, <<407, 407, 1, 209>>,
      <<408, 408, 1, 1>>, <<412, 412, 1, 211>>, <<413, 413, 1, 213>>,
      <<415, 415, 1, 214>>, <<416, 420, 2, 1>>, <<422, 422, 1, 218>>,
      <<423, 423, 1, 1>>, <<425, 425, 1, 218>>, <<428, 428, 1, 1>>,
      <<430, 430, 1, 218>>, <<431, 431, 1, 1>>, <<433, 434, 1, 217>>,
      <<435, 437, 2, 1>>, <<439, 439, 1, 219>>, <<440, 440, 1, 1>>,
      <<444, 444, 1, 1>>, <<452, 452, 1, 2>>, <<453, 453, 1, 1>>, <<455, 455, 1, 2>>,
      <<456, 456, 1, 1>>, <<458, 458, 1, 2>>, <<459, 475, 2, 1>>, <<478, 494, 2, 1>>,
      <<497, 497, 1, 2>>, <<498, 500, 2, 1>>, <<502, 502, 1, -97>>,
      <<503, 503, 1, -56>>, <<504, 542, 2, 1>>, <<544, 544, 1, -130>>,
      <<546, 562, 2, 1>>, <<570, 570, 1, 10795>>, <<571, 571, 1, 1>>,
      <<573, 573, 1, -163>>, <<574, 574, 1, 10792>>, <<577, 577, 1, 1>>,
      <<579, 579, 1, -195>>, <<580, 580, 1, 69>>, <<581, 581, 1, 71>>,
      <<582, 590, 2, 1>>, <<880, 882, 2, 1>>, <<886, 886, 1, 1>>,
      <<895, 895, 1, 116>>, <<902, 902, 1, 38>>, <<904, 906, 1, 37>>,
      <<908, 908, 1, 64>>, <<910, 911, 1, 63>>, <<913, 929, 1, 32>>,
      <<931, 939, 1, 32>>, <<975, 975, 1, 8>>, <<984, 1006, 2, 1>>,
      <<1012, 1012, 1, -60>>, <<1015, 1015, 1, 1>>, <<1017, 1017, 1, -7>>,
      <<1018, 1018, 1, 1>>, <<1021, 1023, 1, -130>>, <<1024, 1039, 1, 80>>,
      <<1040, 1071, 1, 32>>, <<1120, 1152, 2, 1>>, <<1162, 1214, 2, 1>>,
      <<1216, 1216, 1, 15>>, <<1217, 1229, 2, 1>>, <<1232, 1326, 2, 1>>,
      <<1329, 1366, 1, 48>>, <<4256, 4293, 1, 7264>>, <<4295, 4295, 1, 7264>>,
      <<4301, 4301, 1, 7264>>, <<5024, 5103, 1, 38864>>, <<5104, 5109, 1, 8>>,
      <<7312, 7354, 1, -3008>>, <<7357, 7359, 1, -3008>>, <<7680, 7828, 2, 1>>,
      <<7838, 7838, 1, -7615>>, <<7840, 7934, 2, 1>>, <<7944, 7951, 1, -8>>,
      <<7960, 7965, 1, -8>>, <<7976, 7983, 1, -8>>, <<7992, 7999, 1, -8>>,
      <<8008, 8013, 1, -8>>, <<8025, 8031, 2, -8>>, <<8040, 8047, 1, -8>>,
      <<8072, 8079, 1, -8>>, <<8088, 8095, 1, -8>>, <<8104, 8111, 1, -8>>,
      <<8120, 8121, 1, -8>>, <<8122, 8123, 1, -74>>, <<8124, 8124, 1, -9>>,
      <<8136, 8139, 1, -86>>, <<8140, 8140, 1, -9>>, <<8152, 8153, 1, -8>>,
      <<8154, 8155, 1, -100>>, <<8168, 8169, 1, -8>>, <<8170, 8171, 1, -112>>,
      <<8172, 8172, 1, -7>>, <<8184, 8185, 1, -128>>, <<8186, 8187, 1, -126>>,
      <<8188, 8188, 1, -9>>, <<8486, 8486, 1, -7517>>, <<8490, 8490, 1, -8383>>,
      <<8491, 8491, 1, -8262>>, <<8498, 8498, 1, 28>>, <<8544, 8559, 1, 16>>,
      <<8579, 8579, 1, 1>>, <<9398, 9423, 1, 26>>, <<11264, 11311, 1, 48>>,
      <<11360, 11360, 1, 1>>, <<11362, 11362, 1, -10743>>,
      <<11363, 11363, 1, -3814>>, <<11364, 11364, 1, -10727>>,
      <<11367, 11371, 2, 1>>, <<11373, 11373, 1, -10780>>,
      <<11374, 11374, 1, -10749>>, <<11375, 11375, 1, -10783>>,
      <<11376, 11376, 1, -10782>>, <<11378, 11378, 1, 1>>, <<11381, 11381, 1, 1>>,
      <<11390, 11391, 1, -10815>>, <<11392, 11490, 2, 1>>, <<11499, 11501, 2, 1>>,
      <<11506, 11506, 1, 1>>, <<42560, 42604, 2, 1>>, <<42624, 42650, 2, 1>>,
      <<42786, 42798, 2, 1>>, <<42802, 42862, 2, 1>>, <<42873, 42875, 2, 1>>,
      <<42877, 42877, 1, -35332>>, <<42878, 42886, 2, 1>>, <<42891, 42891, 1, 1>>,
      <<42893, 42893, 1, -42280>>, <<42896, 42898, 2, 1>>, <<42902, 42920, 2, 1>>,
      <<42922, 42922, 1, -42308>>, <<42923, 42923, 1, -42319>>,
      <<42924, 42924, 1, -42315>>, <<42925, 42925, 1, -42305>>,
      <<42926, 42926, 1, -42308>>, <<42928, 42928, 1, -42258>>,
      <<42929, 42929, 1, -42282>>, <<42930, 42930, 1, -42261>>,
      <<42931, 42931, 1, 928>>, <<42932, 42946, 2, 1>>, <<42948, 42948, 1, -48>>,
      <<42949, 42949, 1, -42307>>, <<42950, 42950, 1, -35384>>,
      <<42951, 42953, 2, 1>>, <<42960, 42960, 1, 1>>, <<42966, 42968, 2, 1>>,
      <<42997, 42997, 1, 1>>, <<65313, 65338, 1, 32>>, <<66560, 66599, 1, 40>>,
      <<66736, 66771, 1, 40>>, <<66928, 66964, 2, 39>>, <<66929, 66929, 1, 39>>,
      <<66931, 66931, 1, 39>>, <<66933, 66933, 1, 39>>, <<66935, 66935, 1, 39>>,
      <<66937, 66937, 1, 39>>, <<66941, 66941, 1, 39>>, <<66943, 66943, 1, 39>>,
      <<66945, 66945, 1, 39>>, <<66947, 66947, 1, 39>>, <<66949, 66949, 1, 39>>,
      <<66951, 66951, 1, 39>>, <<66953, 66953, 1, 39>>, <<66957, 66957, 1, 39>>,
      <<66959, 66959, 1, 39>>, <<66961, 66961, 1, 39>>, <<66965, 66965, 1, 39>>,
      <<68736, 68786, 1, 64>>, <<71840, 71871, 1, 32>>, <<93760, 93791, 1, 32>>,
      <<125184, 125217, 1, 34>> }

SimpleLower(c) ==
    \* ASCII is the first run alone
    IF c < 128 THEN (IF 65 <= c /\ c <= 90 THEN c + 32 ELSE c)
    ELSE LET hits == {r \in LowerRuns : r[1] <= c /\ c <= r[2] /\ (c - r[1]) % r[3] = 0}
         IN  IF hits = {} THEN c ELSE c + (CHOOSE r \in hits : TRUE)[4]

\* The characters re.IGNORECASE accepts for a lower-case literal besides those
\* that lower to it.
ExtraCases ==
    (105 :> {305}) @@ (115 :> {383}) @@ (181 :> {956}) @@ (305 :> {105}) @@ (383 :> {115}) @@
    (837 :> {953, 8126}) @@ (912 :> {8147}) @@ (944 :> {8163}) @@ (946 :> {976}) @@
    (949 :> {1013}) @@ (952 :> {977}) @@ (953 :> {837, 8126}) @@ (954 :> {1008}) @@
    (956 :> {181}) @@ (960 :> {982}) @@ (961 :> {1009}) @@ (962 :> {963}) @@ (963 :> {962}) @@
    (966 :> {981}) @@ (976 :> {946}) @@ (977 :> {952}) @@ (981 :> {966}) @@ (982 :> {960}) @@
    (1008 :> {954}) @@ (1009 :> {961}) @@ (1013 :> {949}) @@ (1074 :> {7296}) @@
    (1076 :> {7297}) @@ (1086 :> {7298}) @@ (1089 :> {7299}) @@ (1090 :> {7300, 7301}) @@
    (1098 :> {7302}) @@ (1123 :> {7303}) @@ (7296 :> {1074}) @@ (7297 :> {1076}) @@
    (7298 :> {1086}) @@ (7299 :> {1089}) @@ (7300 :> {1090, 7301}) @@
    (7301 :> {1090, 7300}) @@ (7302 :> {1098}) @@ (7303 :> {1123}) @@ (7304 :> {42571}) @@
    (7777 :> {7835}) @@ (7835 :> {7777}) @@ (8126 :> {837, 953}) @@ (8147 :> {912}) @@
    (8163 :> {944}) @@ (42571 :> {7304}) @@ (64261 :> {64262}) @@ (64262 :> {64261})

CaseFix(c) == IF c \in DOMAIN ExtraCases THEN ExtraCases[c] ELSE {}

\* str.lower() of one character: the simple mapping, but U+0130 gives two
\* characters (the rule for a final capital sigma does not apply to a
\* character that matched a letter of day_regex).
Lower(c) == IF c = 304 THEN <<105, 775>> ELSE << SimpleLower(c) >>

\* The literal w (ASCII, as in the patterns) matches s at pos under re.IGNORECASE.
LitCI(s, pos, w) ==
    /\ pos + Len(w) <= Len(s)
    /\ \A i \in 1..Len(w) :
          LET lo == SimpleLower(w[i])
          IN  SimpleLower(s[pos + i]) \in {lo} \cup CaseFix(lo)

\* (?:w)? at pos: the position after it.
OptLit(s, pos, w) == IF LitCI(s, pos, w) THEN pos + Len(w) ELSE pos

\* \s? at pos: the position after it.
OptSpace(s, pos) == IF pos < Len(s) /\ IsSpace(s[pos + 1]) THEN pos + 1 ELSE pos

\* The length of the run of digits of s that starts at pos.
RECURSIVE DigitRun(_, _)
DigitRun(s, pos) ==
    IF pos < Len(s) /\ IsDigit(s[pos + 1]) THEN 1 + DigitRun(s, pos + 1) ELSE 0

\* int() / float() of the n digits of s that start at pos.
RECURSIVE ToInt(_, _, _)
ToInt(s, pos, n) ==
    IF n = 0 THEN 0 ELSE ToInt(s, pos, n - 1) * 10 + DigitVal(s[pos + n])

\* val[end:]
Suffix(s, end) == SubSeq(s, end + 1, Len(s))

\* The empty dict.
EmptyDict == [k \in {} |-> 0]

(***************************************************************************)
(* timedelta_regex                                                         *)
(***************************************************************************)
\* The seven groups in order; the unit is head(?:tail s?)? (months: months?).
DeltaUnits ==
    << [name |-> "years",   head |-> W(<<"y">>), tail |-> W(<<"e","a","r">>)],
       [name |-> "months",  head |-> W(<<"m","o","n","t","h">>), tail |-> <<>>],
       [name |-> "weeks",   head |-> W(<<"w">>), tail |-> W(<<"e","e","k">>)],
       [name |-> "days",    head |-> W(<<"d">>), tail |-> W(<<"a","y">>)],
       [name |-> "hours",   head |-> W(<<"h">>), tail |-> W(<<"o","u","r">>)],
       [name |-> "minutes", head |-> W(<<"m">>), tail |-> W(<<"i","n","u","t","e">>)],
       [name |-> "seconds", head |-> W(<<"s">>), tail |-> W(<<"e","c","o","n","d">>)] >>

\* The unit word at pos: the position after it, or -1.
UnitEnd(s, pos, head, tail) ==
    IF ~LitCI(s, pos, head) THEN -1
    ELSE LET p1 == pos + Len(head)
         IN  IF LitCI(s, p1, tail)
             THEN OptLit(s, p1 + Len(tail), W(<<"s">>))
             ELSE p1

\* One group (?:(?P<name>[-+]?\d+)\s?unit\s?)? tried at pos.
DeltaGroup(s, pos, head, tail) ==
    LET sign == IF pos < Len(s) /\ s[pos + 1] \in {Ord["-"], Ord["+"]} THEN 1 ELSE 0
        n    == DigitRun(s, pos + sign)
        u    == UnitEnd(s, OptSpace(s, pos + sign + n), head, tail)
        mag  == ToInt(s, pos + sign, n)
    IN  [ ok  |-> n > 0 /\ u >= 0,
          val |-> IF sign = 1 /\ s[pos + 1] = Ord["-"] THEN 0 - mag ELSE mag,
          end |-> IF u >= 0 THEN OptSpace(s, u) ELSE pos ]

\* Groups i.. of timedelta_regex from pos: the end and the groups that took part.
RECURSIVE DeltaFrom(_, _, _)
DeltaFrom(s, pos, i) ==
    IF i > Len(DeltaUnits) THEN [end |-> pos, groups |-> EmptyDict]
    ELSE LET g    == DeltaGroup(s, pos, DeltaUnits[i].head, DeltaUnits[i].tail)
             rest == DeltaFrom(s, IF g.ok THEN g.end ELSE pos, i + 1)
         IN  [ end    |-> rest.end,
               groups |-> IF g.ok
                          THEN (DeltaUnits[i].name :> g.val) @@ rest.groups
                          ELSE rest.groups ]

\* timedelta_regex.match(val): always matches, possibly the empty prefix.
timedelta_regex(s) == DeltaFrom(s, 0, 1)

(***************************************************************************)
(* day_regex                                                               *)
(***************************************************************************)
\* The alternatives in order: head, then (?:t1(?:t2)?)? .
DayWords ==
    << [head |-> W(<<"t","o","d","a","y">>), t1 |-> <<>>, t2 |-> <<>>],
       [head |-> W(<<"t","o","m","o","r","r","o","w">>), t1 |-> <<>>, t2 |-> <<>>],
       [head |-> W(<<"m","o","n">>), t1 |-> W(<<"d","a","y">>), t2 |-> <<>>],
       [head |-> W(<<"t","u","e">>), t1 |-> <<>>, t2 |-> <<>>],
       [head |-> W(<<"w","e","d">>), t1 |-> W(<<"n","e","s","d","a","y">>), t2 |-> <<>>],
       [head |-> W(<<"t","h","u">>), t1 |-> W(<<"r","s">>), t2 |-> W(<<"d","a","y">>)],
       [head |-> W(<<"f","r","i">>), t1 |-> W(<<"d","a","y">>), t2 |-> <<>>],
       [head |-> W(<<"s","a","t">>), t1 |-> W(<<"u","r","d","a","y">>), t2 |-> <<>>],
       [head |-> W(<<"s","u","n">>), t1 |-> W(<<"d","a","y">>), t2 |-> <<>>] >>

\* The end of alternative w matched at 0 (w.head is known to match).
DayWordEnd(s, w) ==
    LET p0 == Len(w.head)
    IN  IF w.head = W(<<"t","u","e">>)
        THEN OptLit(s, OptLit(s, p0, W(<<"s">>)), W(<<"d","a","y">>))   \* tues?(?:day)?
        ELSE IF w.t1 # <<>> /\ LitCI(s, p0, w.t1)
             THEN OptLit(s, p0 + Len(w.t1), w.t2)
             ELSE p0

\* day_regex.match(val): the first alternative that matches at 0.
day_regex(s) ==
    LET hits == {i \in 1..Len(DayWords) : LitCI(s, 0, DayWords[i].head)}
    IN  IF hits = {} THEN [ok |-> FALSE, end |-> 0]
        ELSE LET i == CHOOSE j \in hits : \A k \in hits : j <= k
             IN  [ok |-> TRUE, end |-> DayWordEnd(s, DayWords[i])]

(***************************************************************************)
(* date_regex and time_regex                                               *)
(***************************************************************************)
\* date_regex.match(val): \d{4}-\d{1,2}-\d{1,2} at 0.
date_regex(s) ==
    LET dash(p) == p < Len(s) /\ s[p + 1] = Ord["-"]
        mrun == DigitRun(s, 5)
        mlen == IF mrun >= 2 /\ dash(7) THEN 2
                ELSE IF mrun >= 1 /\ dash(6) THEN 1 ELSE 0
        dpos == 5 + mlen + 1
        drun == DigitRun(s, dpos)
        dlen == IF drun >= 2 THEN 2 ELSE drun
        ok   == DigitRun(s, 0) >= 4 /\ dash(4) /\ mlen > 0 /\ dlen > 0
    IN  IF ok
        THEN [ ok |-> TRUE, end |-> dpos + dlen,
               groups |-> ("year" :> ToInt(s, 0, 4)) @@ ("month" :> ToInt(s, 5, mlen))
                          @@ ("day" :> ToInt(s, dpos, dlen)) ]
        ELSE [ok |-> FALSE, end |-> 0, groups |-> EmptyDict]

\* time_regex.match(val, pos): (?:\sat\s)?\d{2}[:.]\d{2}(?:[:.]\d{2})? at pos.
time_regex(s, pos) ==
    LET sep(p) == p < Len(s) /\ s[p + 1] \in {Ord[":"], Ord["."]}
        two(p) == DigitRun(s, p) >= 2
        at  == /\ pos + 4 <= Len(s)
               /\ IsSpace(s[pos + 1])
               /\ LitCI(s, pos + 1, W(<<"a","t">>))
               /\ IsSpace(s[pos + 4])
        h   == IF at THEN pos + 4 ELSE pos
        ok  == two(h) /\ sep(h + 2) /\ two(h + 3)
        sec == ok /\ sep(h + 5) /\ two(h + 6)
        hm  == ("hour" :> ToInt(s, h, 2)) @@ ("minute" :> ToInt(s, h + 3, 2))
    IN  IF ~ok THEN [ok |-> FALSE, end |-> pos, groups |-> EmptyDict]
        ELSE IF sec
             THEN [ok |-> TRUE, end |-> h + 8,
                   groups |-> hm @@ ("second" :> ToInt(s, h + 6, 2))]
             ELSE [ok |-> TRUE, end |-> h + 5, groups |-> hm]

(***************************************************************************)
(* datetime, timedelta (the standard library's proleptic Gregorian         *)
(* calendar) and dateutil's relativedelta, as match uses them              *)
(***************************************************************************)
IsLeap(y) == y % 4 = 0 /\ (y % 100 # 0 \/ y % 400 = 0)

DaysInMonth(y, m) ==
    IF m = 2 THEN (IF IsLeap(y) THEN 29 ELSE 28)
    ELSE IF m \in {4, 6, 9, 11} THEN 30 ELSE 31

DaysBeforeYear(y) ==
    LET p == y - 1 IN p * 365 + (p \div 4) - (p \div 100) + (p \div 400)

RECURSIVE DaysBeforeMonth(_, _)
DaysBeforeMonth(y, m) ==
    IF m = 1 THEN 0 ELSE DaysBeforeMonth(y, m - 1) + DaysInMonth(y, m - 1)

\* date.toordinal(): 0001-01-01 is day 1.
ToOrdinal(y, m, d) == DaysBeforeYear(y) + DaysBeforeMonth(y, m) + d

\* date.fromordinal(n)
FromOrdinal(n) ==
    LET n0   == n - 1
        n400 == n0 \div 146097
        r400 == n0 % 146097
        n100 == r400 \div 36524
        r100 == r400 % 36524
        n4   == r100 \div 1461
        r4   == r100 % 1461
        n1   == r4 \div 365
        r1   == r4 % 365
        y    == n400 * 400 + n100 * 100 + n4 * 4 + n1 + 1
    IN  IF n1 = 4 \/ n100 = 4
        THEN [year |-> y - 1, month |-> 12, day |-> 31]
        ELSE LET m == CHOOSE k \in 1..12 :
                          /\ DaysBeforeMonth(y, k) <= r1
                          /\ r1 < DaysBeforeMonth(y, k) + DaysInMonth(y, k)
             IN  [year |-> y, month |-> m, day |-> r1 - DaysBeforeMonth(y, m) + 1]

\* datetime.weekday(): Monday is 0.
Weekday(dt) == (ToOrdinal(dt.year, dt.month, dt.day) + 6) % 7

SecondOfDay(dt) == dt.hour * 3600 + dt.minute * 60 + dt.second

\* The day number and second of day of dt + timedelta(days, seconds).
ShiftedOrdinal(dt, days, secs) ==
    ToOrdinal(dt.year, dt.month, dt.day) + days + ((SecondOfDay(dt) + secs) \div 86400)

\* dt + timedelta(days=days, seconds=secs), when the date stays in range.
AddTimedelta(dt, days, secs) ==
    LET ymd == FromOrdinal(ShiftedOrdinal(dt, days, secs))
        sod == (SecondOfDay(dt) + secs) % 86400
    IN  [ year |-> ymd.year, month |-> ymd.month, day |-> ymd.day,
          hour |-> sod \div 3600, minute |-> (sod \div 60) % 60, second |-> sod % 60 ]

\* The clock counts seconds from this moment (UTC).
Epoch == [year |-> 2024, month |-> 1, day |-> 1, hour |-> 0, minute |-> 0, second |-> 0]

\* datetime.now(tz): the wall clock, at instant t, of a zone off hours east of UTC.
WallClock(t, off) == AddTimedelta(Epoch, 0, t + off * 3600)

\* relativedelta(**p) and dt + it: [error, ts] with ts the result when error = "".
relativedelta_add(dt, p) ==
    LET has(k)  == k \in DOMAIN p
        get(k)  == IF has(k) THEN p[k] ELSE 0
        abs(v)  == IF v < 0 THEN 0 - v ELSE v
        sgn(v)  == IF v < 0 THEN 0 - 1 ELSE 1
        \* __init__ and _fix(): months beyond 11 carry into years
        months0 == get("months")
        months  == IF abs(months0) > 11 THEN sgn(months0) * (abs(months0) % 12) ELSE months0
        years   == get("years")
                   + (IF abs(months0) > 11 THEN sgn(months0) * (abs(months0) \div 12) ELSE 0)
        days    == get("days") + get("weeks") * 7
        secs    == get("hours") * 3600 + get("minutes") * 60 + get("seconds")
        \* __add__
        y0      == (IF has("year") /\ p["year"] # 0 THEN p["year"] ELSE dt.year) + years
        m0      == (IF has("month") /\ p["month"] # 0 THEN p["month"] ELSE dt.month) + months
        year    == IF m0 > 12 THEN y0 + 1 ELSE IF m0 < 1 THEN y0 - 1 ELSE y0
        month   == IF m0 > 12 THEN m0 - 12 ELSE IF m0 < 1 THEN m0 + 12 ELSE m0
        d0      == IF has("day") /\ p["day"] # 0 THEN p["day"] ELSE dt.day
        day     == IF DaysInMonth(year, month) < d0 THEN DaysInMonth(year, month) ELSE d0
        repl    == [ year   |-> year, month |-> month, day |-> day,
                     hour   |-> IF has("hour") THEN p["hour"] ELSE dt.hour,
                     minute |-> IF has("minute") THEN p["minute"] ELSE dt.minute,
                     second |-> IF has("second") THEN p["second"] ELSE dt.second ]
        inRange(o) == 1 <= o /\ o <= 3652059
        ord1    == ShiftedOrdinal(repl, days, secs)
        ret     == AddTimedelta(repl, days, secs)
        jump    == (7 - Weekday(ret) + p["weekday"]) % 7
    IN  IF has("weekday") /\ p["weekday"] \notin 0..6
        THEN [error |-> "IndexError", ts |-> <<>>]          \* weekdays[weekday]
        ELSE IF \/ month \notin 1..12 \/ year \notin 1..9999 \/ day < 1
                \/ repl.hour \notin 0..23 \/ repl.minute \notin 0..59
                \/ repl.second \notin 0..59
        THEN [error |-> "ValueError", ts |-> <<>>]          \* dt.replace(**repl)
        ELSE IF ~inRange(ord1)
        THEN [error |-> "OverflowError", ts |-> <<>>]       \* + timedelta
        ELSE IF ~has("weekday")
        THEN [error |-> "", ts |-> <<ret>>]
        ELSE IF ~inRange(ord1 + jump)
        THEN [error |-> "OverflowError", ts |-> <<>>]
        ELSE [error |-> "", ts |-> <<AddTimedelta(ret, jump, 0)>>]

(***************************************************************************)
(* The inputs of the model                                                 *)
(***************************************************************************)
\* Texts that start with a relative delta: '2d', '1h30m', '-1d', '3 hours', '1w',
\* '1month', '1y', '2D', '90s', '9999y', U+0663 (ARABIC-INDIC DIGIT THREE) 'd',
\* '1' CR 'd', '1wee' U+212A (KELVIN SIGN)
DeltaHeads ==
    { W(<<"2", "d">>),
      W(<<"1", "h", "3", "0", "m">>),
      W(<<"-", "1", "d">>),
      W(<<"3", " ", "h", "o", "u", "r", "s">>),
      W(<<"1", "w">>),
      W(<<"1", "m", "o", "n", "t", "h">>),
      W(<<"1", "y">>),
      W(<<"2", "D">>),
      W(<<"9", "0", "s">>),
      W(<<"9", "9", "9", "9", "y">>),
      <<1635>> \o W(<<"d">>),
      W(<<"1", "\r", "d">>),
      W(<<"1", "w", "e", "e">>) \o <<8490>> }

\* Texts that start with a weekday or keyword; the last two are 'fr' U+0130
\* (CAPITAL I WITH DOT ABOVE) and U+017F (LONG S) 'unday'
DayHeads ==
    { W(<<"t", "o", "d", "a", "y">>),
      W(<<"t", "o", "m", "o", "r", "r", "o", "w">>),
      W(<<"T", "o", "m", "o", "r", "r", "o", "w">>),
      W(<<"m", "o", "n">>),
      W(<<"t", "u", "e", "s">>),
      W(<<"w", "e", "d">>),
      W(<<"t", "h", "u", "r", "s", "d", "a", "y">>),
      W(<<"f", "r", "i">>),
      W(<<"s", "a", "t">>),
      W(<<"s", "u", "n", "d", "a", "y">>),
      W(<<"f", "r">>) \o <<304>>,
      <<383>> \o W(<<"u", "n", "d", "a", "y">>) }

\* Texts that start with an ISO date; the last is U+0662 (ARABIC-INDIC DIGIT TWO)
\* '024-05-01'
DateHeads ==
    { W(<<"2", "0", "2", "4", "-", "0", "5", "-", "0", "1">>),
      W(<<"2", "0", "2", "4", "-", "5", "-", "1">>),
      <<1634>> \o W(<<"0", "2", "4", "-", "0", "5", "-", "0", "1">>) }

\* The empty text and 'buy milk'
OtherHeads ==
    { <<>>,
      W(<<"b", "u", "y", " ", "m", "i", "l", "k">>) }

\* What follows the head: nothing, ' at 09:00', ' 14:30', '14:30:15', ' at 25:00'
ClockTimes ==
    { <<>>,
      W(<<" ", "a", "t", " ", "0", "9", ":", "0", "0">>),
      W(<<" ", "1", "4", ":", "3", "0">>),
      W(<<"1", "4", ":", "3", "0", ":", "1", "5">>),
      W(<<" ", "a", "t", " ", "2", "5", ":", "0", "0">>) }

\* What follows the clock time: nothing or ' x'
Tails ==
    { <<>>,
      W(<<" ", "x">>) }

\* The texts match is called with.
Texts ==
    { h \o m \o t : h \in DeltaHeads \cup DayHeads \cup DateHeads \cup OtherHeads,
                    m \in ClockTimes, t \in Tails }

\* The reference timezones (hours east of UTC) and the system's own zone.
TzOffsets == {0, 12}

LocalOffsets == {0}

\* The clock at the start: Monday 2024-02-26 to Sunday 2024-03-03 (UTC), each
\* at 00:00:00, 13:30:07 and 23:59:59.
InitClocks ==
    { d * 86400 + t : d \in 56..62, t \in {0, 13 * 3600 + 30 * 60 + 7, 86399} }

\* The clock advances at most this many seconds during one call.
MaxTicks == 1

\* format_time is given targets up to this many whole days from now, either way.
MaxDays == 8

\* The zones of the targets format_time is given: hours east of UTC and the
\* name the tzinfo gives (%Z).
FormatZones == { [off |-> 0, name |-> "UTC"], [off |-> 12, name |-> "UTC+12:00"] }

\* The differences target - now, in seconds, that format_time is given.
FormatDeltas ==
    { sg * (d * 86400 + h * 3600 + m * 60 + sec) :
        sg \in {1, 0 - 1}, d \in 0..MaxDays, h \in {0, 1, 23}, m \in {0, 1, 59},
        sec \in {0, 1, 30, 59} }

(***************************************************************************)
(* The state                                                               *)
(***************************************************************************)
VARIABLES
    clock,        \* the system clock: seconds since Epoch
    local,        \* the system's zone, hours east of UTC (naive datetime.now())
    ticks,        \* how many seconds the clock advanced during the call
    pc,           \* where the call stands
    val,          \* match: the text
    tz,           \* match: the reference timezone, hours east of UTC
    found_delta,  \* match: timedelta_regex.match(val) as [end, groups]
    params,       \* match: the field map
    end,          \* match: the consumption offset
    tod,          \* match: the "tod" entry of the table of line 84
    tom,          \* match: the "tom" entry of the table of line 84
    now,          \* match: <<datetime.now(tz=tz)>> of line 101, <<>> before it
    result,       \* match: [rest, ts, error]; ts is <<>> for None
    time,         \* format_time: the target, an aware datetime [instant, off, name]
    out           \* format_time: [kind, parts, text, error]

vars == << clock, local, ticks, pc, val, tz, found_delta, params, end, tod, tom,
           now, result, time, out >>

matchVars == << val, tz, found_delta, params, end, tod, tom, now, result >>

NoResult == [rest |-> <<>>, ts |-> <<>>, error |-> ""]

NoOutput == [kind |-> "", parts |-> <<>>, text |-> "", error |-> ""]

Init ==
    /\ clock \in InitClocks
    /\ local \in LocalOffsets
    /\ ticks = 0
    /\ pc = "idle"
    /\ val = <<>>
    /\ tz = 0
    /\ found_delta = [end |-> 0, groups |-> EmptyDict]
    /\ params = EmptyDict
    /\ end = 0
    /\ tod = 0
    /\ tom = 0
    /\ now = <<>>
    /\ result = NoResult
    /\ time = [instant |-> 0, off |-> 0, name |-> "UTC"]
    /\ out = NoOutput

(***************************************************************************)
(* DateArgument.match                                                      *)
(***************************************************************************)
\* The call: val is the text, tz is instance.db.get_timezone(evt.sender) (or UTC).
Call(v, z) ==
    /\ pc = "idle"
    /\ pc' = "delta"
    /\ val' = v
    /\ tz' = z
    /\ UNCHANGED << clock, local, ticks, found_delta, params, end, tod, tom, now,
                    result, time, out >>

\* MatchDelta with the clock-time step moved out of the else branch of line 78:
\* after a delta the call goes on to lines 93-99.
MatchDelta_ThenTime ==
    /\ pc = "delta"
    /\ found_delta' = timedelta_regex(val)
    /\ IF found_delta'.end > 0
       THEN /\ params' = found_delta'.groups
            /\ end' = found_delta'.end
            /\ pc' = "time"
       ELSE /\ params' = EmptyDict
            /\ end' = 0
            /\ pc' = "day"
    /\ UNCHANGED << clock, local, ticks, val, tz, tod, tom, now, result, time, out >>

\* Lines 73-79: the relative delta; its values are float(v), whole numbers here.
MatchDelta ==
    /\ pc = "delta"
    /\ found_delta' = timedelta_regex(val)
    /\ IF found_delta'.end > 0
       THEN /\ params' = found_delta'.groups
            /\ end' = found_delta'.end
            /\ pc' = "ret"
       ELSE /\ params' = EmptyDict
            /\ end' = 0
            /\ pc' = "day"
    /\ UNCHANGED << clock, local, ticks, val, tz, tod, tom, now, result, time, out >>

\* Lines 80-82 and 87: the weekday or keyword.
MatchDay ==
    /\ pc = "day"
    /\ LET found_day == day_regex(val)
       IN  IF found_day.ok
           THEN end' = found_day.end /\ pc' = "tod"
           ELSE end' = end /\ pc' = "date"
    /\ UNCHANGED << clock, local, ticks, val, tz, found_delta, params, tod, tom, now,
                    result, time, out >>

\* Line 84, first entry: "tod": datetime.now().weekday(), the system's own zone.
ReadToday ==
    /\ pc = "tod"
    /\ tod' = Weekday(WallClock(clock, local))
    /\ pc' = "tom"
    /\ UNCHANGED << clock, local, ticks, val, tz, found_delta, params, end, tom, now,
                    result, time, out >>

\* found_day.string[:3].lower()
DayKey(s) == Lower(s[1]) \o Lower(s[2]) \o Lower(s[3])

\* The table of lines 83-86.
DayTable(today, tomorrow) ==
    (W(<<"t","o","d">>) :> today) @@ (W(<<"t","o","m">>) :> tomorrow) @@
    (W(<<"m","o","n">>) :> 0) @@ (W(<<"t","u","e">>) :> 1) @@ (W(<<"w","e","d">>) :> 2) @@
    (W(<<"t","h","u">>) :> 3) @@ (W(<<"f","r","i">>) :> 4) @@ (W(<<"s","a","t">>) :> 5) @@
    (W(<<"s","u","n">>) :> 6)

\* Line 84, second entry: "tom": datetime.now().weekday() + 1; then the lookup
\* of line 86, which raises KeyError when the key is not in the table.
ReadTomorrow ==
    /\ pc = "tom"
    /\ tom' = Weekday(WallClock(clock, local)) + 1
    /\ IF DayKey(val) \in DOMAIN DayTable(tod, tom')
       THEN /\ params' = ("weekday" :> DayTable(tod, tom')[DayKey(val)])
            /\ pc' = "time"
            /\ result' = result
       ELSE /\ params' = params                                   \* KeyError
            /\ pc' = "done"
            /\ result' = [rest |-> <<>>, ts |-> <<>>, error |-> "KeyError"]
    /\ UNCHANGED << clock, local, ticks, val, tz, found_delta, end, tod, now,
                    time, out >>

\* Lines 88-91: the ISO date; params is read from found_delta, not found_date.
MatchDate ==
    /\ pc = "date"
    /\ LET found_date == date_regex(val)
       IN  IF found_date.ok
           THEN end' = found_date.end /\ params' = found_delta.groups
           ELSE end' = end /\ params' = params
    /\ pc' = "time"
    /\ UNCHANGED << clock, local, ticks, val, tz, found_delta, tod, tom, now,
                    result, time, out >>

\* Lines 93-99: the clock time, inside the else branch of line 78.
MatchTime ==
    /\ pc = "time"
    /\ LET found_time == time_regex(val, end)
       IN  IF found_time.ok
           THEN params' = found_time.groups @@ params /\ end' = found_time.end
           ELSE params' = params /\ end' = end
    /\ pc' = "ret"
    /\ UNCHANGED << clock, local, ticks, val, tz, found_delta, tod, tom, now,
                    result, time, out >>

\* Return with datetime.now() in place of datetime.now(tz=tz).
Return_NaiveNow ==
    /\ pc = "ret"
    /\ IF DOMAIN params # {}
       THEN LET r == relativedelta_add(WallClock(clock, local), params)
            IN  /\ now' = << WallClock(clock, local) >>
                /\ result' = [ rest  |-> IF r.error = "" THEN Suffix(val, end) ELSE <<>>,
                               ts    |-> r.ts,
                               error |-> r.error ]
       ELSE /\ now' = now
            /\ result' = [rest |-> Suffix(val, end), ts |-> <<>>, error |-> ""]
    /\ pc' = "done"
    /\ UNCHANGED << clock, local, ticks, val, tz, found_delta, params, end, tod, tom,
                    time, out >>

\* Lines 101-102: val[end:] and now in tz plus relativedelta(**params), or None.
Return ==
    /\ pc = "ret"
    /\ IF DOMAIN params # {}
       THEN LET r == relativedelta_add(WallClock(clock, tz), params)
            IN  /\ now' = << WallClock(clock, tz) >>
                /\ result' = [ rest  |-> IF r.error = "" THEN Suffix(val, end) ELSE <<>>,
                               ts    |-> r.ts,
                               error |-> r.error ]
       ELSE /\ now' = now
            /\ result' = [rest |-> Suffix(val, end), ts |-> <<>>, error |-> ""]
    /\ pc' = "done"
    /\ UNCHANGED << clock, local, ticks, val, tz, found_delta, params, end, tod, tom,
                    time, out >>

\* The system clock advances one second while the call is running.
Tick ==
    /\ pc \notin {"idle", "done"}
    /\ ticks < MaxTicks
    /\ clock' = clock + 1
    /\ ticks' = ticks + 1
    /\ UNCHANGED << local, pc, matchVars, time, out >>

(***************************************************************************)
(* format_time                                                             *)
(***************************************************************************)
\* pluralize(val, unit)
pluralize(v, unit) ==
    IF v = 1 THEN ToString(v) \o " " \o unit
    ELSE ToString(v) \o " " \o unit \o "s"

\* ", ".join(parts[:n]) of the clauses, each rendered by pluralize.
RECURSIVE JoinParts(_, _)
JoinParts(parts, n) ==
    IF n = 0 THEN ""
    ELSE IF n = 1 THEN pluralize(parts[1].val, parts[1].unit)
    ELSE JoinParts(parts, n - 1) \o ", " \o pluralize(parts[n].val, parts[n].unit)

\* timedelta(days=7) of line 122.
LimitDays == 7

\* FormatParts with the second divmod of line 128 taken by 24 instead of 60.
FormatParts_WrongDivisor(delta) ==
    LET days    == delta \div 86400
        dsecs   == delta % 86400
        seconds == dsecs % 60
        hours   == (dsecs \div 60) \div 24
        minutes == (dsecs \div 60) % 24
        clause(v, unit) == IF v > 0 THEN << [val |-> v, unit |-> unit] >> ELSE <<>>
    IN  clause(days, "day") \o clause(hours, "hour") \o clause(minutes, "minute")
        \o clause(seconds, "second")

\* Lines 124-134: the clauses of delta = time - now, a timedelta (days may be
\* negative, seconds is always in 0..86399).
FormatParts(delta) ==
    LET days    == delta \div 86400
        dsecs   == delta % 86400
        seconds == dsecs % 60
        hours   == (dsecs \div 60) \div 60
        minutes == (dsecs \div 60) % 60
        clause(v, unit) == IF v > 0 THEN << [val |-> v, unit |-> unit] >> ELSE <<>>
    IN  clause(days, "day") \o clause(hours, "hour") \o clause(minutes, "minute")
        \o clause(seconds, "second")

DayNames ==
    << "Monday", "Tuesday", "Wednesday", "Thursday", "Friday", "Saturday", "Sunday" >>

MonthNames ==
    << "January", "February", "March", "April", "May", "June", "July", "August",
       "September", "October", "November", "December" >>

Pad2(n) == IF n < 10 THEN "0" \o ToString(n) ELSE ToString(n)

\* Line 138: time.strftime("at %H:%M:%S %Z on %A, %B %-d %Y"): the wall clock of
\* time in the zone it carries, and that zone's name.
strftime(t) ==
    LET dt == WallClock(t.instant, t.off)
    IN  "at " \o Pad2(dt.hour) \o ":" \o Pad2(dt.minute) \o ":" \o Pad2(dt.second)
        \o " " \o t.name \o " on " \o DayNames[Weekday(dt) + 1] \o ", "
        \o MonthNames[dt.month]
        \o " " \o ToString(dt.day) \o " " \o ToString(dt.year)

\* format_time(time), now being datetime.now(tz=pytz.UTC).replace(microsecond=0).
format_time(t, nowt) ==
    LET delta == t.instant - nowt
        parts == FormatParts(delta)
        n     == Len(parts)
    IN  IF delta <= LimitDays * 86400
        THEN IF n = 1
             THEN [ kind |-> "relative", parts |-> parts, error |-> "",
                    text |-> "in " \o JoinParts(parts, 1) ]
             ELSE IF n = 0
             THEN [ kind |-> "relative", parts |-> parts, error |-> "IndexError",
                    text |-> "" ]                                  \* parts[-1]
             ELSE [ kind |-> "relative", parts |-> parts, error |-> "",
                    text |-> "in " \o JoinParts(parts, n - 1) \o " and "
                             \o pluralize(parts[n].val, parts[n].unit) ]
        ELSE [kind |-> "absolute", parts |-> <<>>, error |-> "", text |-> strftime(t)]

\* The call format_time(time) with time = now + d, a datetime of zone z.
FormatTime(d, z) ==
    /\ pc = "idle"
    /\ time' = [instant |-> clock + d, off |-> z.off, name |-> z.name]
    /\ out' = format_time(time', clock)
    /\ pc' = "formatted"
    /\ UNCHANGED << clock, local, ticks, matchVars >>

Next ==
    \/ \E v \in Texts, z \in TzOffsets : Call(v, z)
    \/ MatchDelta
    \/ MatchDay
    \/ ReadToday
    \/ ReadTomorrow
    \/ MatchDate
    \/ MatchTime
    \/ Return
    \/ Tick

Spec == Init /\ [][Next]_vars

FormatNext == \E d \in FormatDeltas, z \in FormatZones : FormatTime(d, z)

SpecFormat == Init /\ [][FormatNext]_vars

(***************************************************************************)
(* Properties                                                              *)
(***************************************************************************)
\* The call of match has ended (returned or raised).
Done == pc = "done"

\* The call of match returned a timestamp.
Returned == Done /\ result.error = "" /\ result.ts # <<>>

SameDate(a, b) == a.year = b.year /\ a.month = b.month /\ a.day = b.day

\* b is the calendar day after a.
NextDate(a, b) ==
    ToOrdinal(b.year, b.month, b.day) = ToOrdinal(a.year, a.month, a.day) + 1

\* The text starts with the keyword w of day_regex.
StartsWithKeyword(w) == day_regex(val).ok /\ DayKey(val) = w

\* ts is nw shifted by the unit offsets g: whole months first (the day clipped to
\* the month's length), then the weeks, days, hours, minutes and seconds.
PlusOffsets(nw, g, ts) ==
    LET get(k) == IF k \in DOMAIN g THEN g[k] ELSE 0
        mi  == nw.year * 12 + (nw.month - 1) + get("years") * 12 + get("months")
        y   == mi \div 12
        m   == (mi % 12) + 1
        d   == IF nw.day > DaysInMonth(y, m) THEN DaysInMonth(y, m) ELSE nw.day
        off == (get("weeks") * 7 + get("days")) * 86400 + get("hours") * 3600
               + get("minutes") * 60 + get("seconds")
    IN  (ToOrdinal(ts.year, ts.month, ts.day) - ToOrdinal(y, m, d)) * 86400
        + SecondOfDay(ts) - SecondOfDay(nw) = off

\* C1: a text that begins with an ISO date YYYY-M-D yields a timestamp whose year,
\* month and day are the ones written in the text, whatever the current date is.
C1_IsoDateKept ==
    (Done /\ date_regex(val).ok) =>
        /\ Returned
        /\ result.ts[1].year = date_regex(val).groups["year"]
        /\ result.ts[1].month = date_regex(val).groups["month"]
        /\ result.ts[1].day = date_regex(val).groups["day"]

\* C2 as stated: when the relative delta consumed a nonzero prefix and a clock time
\* stands at the consumption offset, the clock time is consumed too and its hour
\* and minute are merged into the field map.
C2_TimeAfterDelta ==
    (Done /\ found_delta.end > 0 /\ time_regex(val, found_delta.end).ok) =>
        /\ end = time_regex(val, found_delta.end).end
        /\ "hour" \in DOMAIN params
        /\ params["hour"] = time_regex(val, found_delta.end).groups["hour"]
        /\ params["minute"] = time_regex(val, found_delta.end).groups["minute"]

\* The consumption offset after the weekday/keyword and ISO-date steps.
OffsetBeforeTime ==
    IF day_regex(val).ok THEN day_regex(val).end
    ELSE IF date_regex(val).ok THEN date_regex(val).end ELSE 0

\* C2 as amended: the clock time is attempted at the current consumption offset
\* after the weekday/keyword and ISO-date steps, whichever of them fired or
\* neither, and its fields are merged as absolute values; after a relative delta
\* that consumed a nonzero prefix it is not attempted: the field map holds the
\* delta's fields only and the clock time stays in the remaining text. (A call
\* that line 86 ends with KeyError attempts nothing further.)
C2_TimeOnlyWithoutDelta ==
    Done =>
        IF found_delta.end > 0
        THEN /\ end = found_delta.end
             /\ params = found_delta.groups
             /\ DOMAIN params \cap {"hour", "minute", "second"} = {}
        ELSE LET found_time == time_regex(val, OffsetBeforeTime)
             IN  IF result.error = "KeyError"
                 THEN end = OffsetBeforeTime /\ params = EmptyDict
                 ELSE IF found_time.ok
                 THEN /\ end = found_time.end
                      /\ \A k \in DOMAIN found_time.groups :
                            k \in DOMAIN params /\ params[k] = found_time.groups[k]
                 ELSE /\ end = OffsetBeforeTime
                      /\ DOMAIN params \cap {"hour", "minute", "second"} = {}

\* C2 witness: a delta followed by a clock time ('2d 14:30') has been matched and
\* the clock time is what remains.
C2_Witness ==
    /\ Returned
    /\ found_delta.end > 0
    /\ time_regex(val, found_delta.end).ok
    /\ result.rest = Suffix(val, found_delta.end)
    /\ result.rest # <<>>

\* C3: for every current weekday, a text beginning with 'tomorrow' completes
\* without raising, the weekday index handed to relativedelta is within 0..6 and
\* the result's date is the day after the current date. Stated for a call whose
\* clock reads agree (no tick, system zone = reference zone) and whose clock time,
\* if any, is a valid one.
C3_TomorrowNeverRaises ==
    (/\ Done
     /\ StartsWithKeyword(W(<<"t","o","m">>))
     /\ ticks = 0
     /\ tz = local
     /\ ("hour" \in DOMAIN params => params["hour"] < 24)) =>
        /\ params["weekday"] \in 0..6
        /\ Returned
        /\ NextDate(WallClock(clock, tz), result.ts[1])

\* C4: a clock time HH:MM without seconds yields exactly HH:MM:00; the seconds of
\* the current moment never leak into the result.
C4_SecondsZero ==
    (/\ Returned
     /\ found_delta.end = 0
     /\ time_regex(val, OffsetBeforeTime).ok
     /\ "second" \notin DOMAIN time_regex(val, OffsetBeforeTime).groups) =>
        /\ result.ts[1].hour = time_regex(val, OffsetBeforeTime).groups["hour"]
        /\ result.ts[1].minute = time_regex(val, OffsetBeforeTime).groups["minute"]
        /\ result.ts[1].second = 0

\* C5: whenever match returns no timestamp, the remaining text is the whole input.
C5_NoneKeepsText ==
    (Done /\ result.error = "" /\ result.ts = <<>>) => result.rest = val

\* The seconds a list of clauses stands for.
RECURSIVE ClauseSeconds(_)
ClauseSeconds(parts) ==
    IF parts = <<>> THEN 0
    ELSE LET c == Head(parts)
             w == IF c.unit = "day" THEN 86400
                  ELSE IF c.unit = "hour" THEN 3600
                  ELSE IF c.unit = "minute" THEN 60 ELSE 1
         IN  c.val * w + ClauseSeconds(Tail(parts))

\* The units of the clauses, in order.
ClauseUnits(parts) == [i \in 1..Len(parts) |-> parts[i].unit]

\* us is a subsequence of <<"day", "hour", "minute", "second">>.
UnitsInOrder(us) ==
    LET rank == ("day" :> 1) @@ ("hour" :> 2) @@ ("minute" :> 3) @@ ("second" :> 4)
    IN  /\ \A i \in 1..Len(us) : us[i] \in DOMAIN rank
        /\ \A i, j \in 1..Len(us) : i < j => rank[us[i]] < rank[us[j]]

\* C6: for 0 < target - now <= 7 days format_time returns the relative form, whose
\* clauses sum back to exactly target - now, with hours in 0..23, minutes and
\* seconds in 0..59 and only nonzero units shown; 90 seconds gives
\* 'in 1 minute and 30 seconds'.
C6_RelativeRoundTrip ==
    (pc = "formatted" /\ 0 < time.instant - clock /\ time.instant - clock <= LimitDays * 86400) =>
        /\ out.error = ""
        /\ out.kind = "relative"
        /\ ClauseSeconds(out.parts) = time.instant - clock
        /\ UnitsInOrder(ClauseUnits(out.parts))
        /\ \A i \in 1..Len(out.parts) :
              /\ out.parts[i].val > 0
              /\ out.parts[i].unit = "hour" => out.parts[i].val <= 23
              /\ out.parts[i].unit \in {"minute", "second"} => out.parts[i].val <= 59
        /\ LET n == Len(out.parts)
           IN  out.text = IF n = 1 THEN "in " \o JoinParts(out.parts, 1)
                          ELSE "in " \o JoinParts(out.parts, n - 1) \o " and "
                               \o pluralize(out.parts[n].val, out.parts[n].unit)
        /\ (time.instant - clock = 90 => out.text = "in 1 minute and 30 seconds")

\* C6 witness: 90 seconds ahead has been formatted as 'in 1 minute and 30 seconds'.
C6_Witness ==
    /\ pc = "formatted"
    /\ time.instant - clock = 90
    /\ out.text = "in 1 minute and 30 seconds"

\* C7: when target - now is exactly zero format_time returns the string 'in ' and
\* does not fail.
C7_ZeroReturnsIn ==
    (pc = "formatted" /\ time.instant = clock) => (out.error = "" /\ out.text = "in ")

\* C8: the weekday/keyword matcher contributes only when the relative delta
\* consumed nothing, the ISO-date matcher only when both earlier ones matched
\* nothing, and when the delta wins the field map is the delta's groups, the
\* remaining text is the suffix after the delta and the result is now in the
\* reference timezone plus exactly the matched offsets.
C8_FirstMatchWins ==
    Done =>
        /\ found_delta.end > 0 =>
              /\ params = found_delta.groups
              /\ "weekday" \notin DOMAIN params
              /\ end = found_delta.end
              /\ result.error = "" =>
                    /\ result.rest = Suffix(val, found_delta.end)
                    /\ result.ts # <<>>
                    /\ PlusOffsets(WallClock(clock, tz), found_delta.groups, result.ts[1])
        /\ "weekday" \in DOMAIN params =>
              /\ found_delta.end = 0
              /\ day_regex(val).ok
              /\ end >= day_regex(val).end
        /\ (found_delta.end = 0 /\ day_regex(val).ok /\ result.error # "KeyError") =>
              "weekday" \in DOMAIN params
        /\ (date_regex(val).ok /\ end >= date_regex(val).end) =>
              (found_delta.end = 0 /\ ~day_regex(val).ok)

\* C8 witness: '2d' has been matched in a reference timezone other than the
\* system's: a timestamp and the empty remaining text.
C8_Witness ==
    /\ Returned
    /\ val = W(<<"2", "d">>)
    /\ tz # local
    /\ result.rest = <<>>

\* C9: 'today' resolves to the calendar date of the base moment (now in the
\* reference timezone) the result is computed from, and the weekday index used
\* for it is that moment's weekday.
C9_TodayIsBaseDate ==
    (Returned /\ StartsWithKeyword(W(<<"t","o","d">>))) =>
        /\ params["weekday"] = Weekday(now[1])
        /\ SameDate(result.ts[1], now[1])

\* C10: a target strictly earlier than now is never rendered as a positive future
\* duration.
C10_PastNotFuture ==
    (pc = "formatted" /\ time.instant < clock) =>
        ~(out.error = "" /\ out.kind = "relative" /\ ClauseSeconds(out.parts) > 0)
====
